---- MODULE Spec2Model ----
(***************************************************************************)
(* Model of the mongoengine-migrate action system:                         *)
(*   - fields/base.py    CommonFieldType: the per-parameter change_*       *)
(*                       operations of a field-type handler on a           *)
(*                       collection of documents;                          *)
(*   - actions/embedded.py  CreateEmbedded / DropEmbedded / RenameEmbedded *)
(*   - the AlterDocument action exercised by tests/action/                 *)
(*     test_alter_document.py.                                             *)
(* The specifications share the variables: SpecField (a field handler      *)
(* working on one collection), SpecAlter (AlterDocument on a database),    *)
(* SpecBuild (build_object of the document actions), SpecSchedule (the     *)
(* scheduler over the priorities of the actions), SpecEngine (the engine   *)
(* running an ordered action list), SpecRegistry (FieldTypeMeta and the    *)
(* registry of handler types) and SpecTypeKey (change_type_key).           *)
(***************************************************************************)
EXTENDS Integers, Sequences, FiniteSets, TLC

VARIABLES
    collection,   \* SpecField: the documents of the handler's collection
    handler,      \* SpecField: the CommonFieldType instance
    phase,        \* SpecField: "new", "ready", "failed", "forward", "backward"
    pre,          \* SpecField: the collection before the last change_* call
    origin,       \* SpecField: the collection before the first change_* call
    last,         \* SpecField: the operation of the last change_* call
    diff,         \* SpecField: the AlterDiff of the last change_* call
    result,       \* SpecField: what the last call raised and issued
    param,        \* SpecField: the name given to the last change_param call
    handler0,     \* SpecField: the handler before the last change_param call
    db,           \* SpecAlter: collection name -> content, or NoCollection
    schema,       \* SpecAlter: the schema snapshot given to prepare
    action,       \* SpecAlter: the AlterDocument instance
    db0,          \* SpecAlter: the database before the last run_* call
    dbStart,      \* SpecAlter: the database before run_forward
    built,        \* SpecBuild: the last build_object call and what it returned
    schedule,     \* SpecSchedule: the detected actions and their scheduled order
    engine,       \* SpecEngine: the ordered action list and the run over it
    mongoengine_fields_mapping,  \* SpecRegistry: identifier -> handler type
    handler_types,               \* SpecRegistry: the handler types defined
    defined,      \* SpecRegistry: the last class definition and what it raised
    document_registry  \* SpecTypeKey: classes of the fields of the declared models

vars == <<collection, handler, phase, pre, origin, last, diff, result, param, handler0,
          db, schema, action, db0, dbStart, built, schedule, engine,
          mongoengine_fields_mapping, handler_types, defined,
          document_registry>>

fieldVars == <<collection, handler, phase, pre, origin, last, diff, result, param,
              handler0>>
alterVars == <<db, schema, action, db0, dbStart>>
buildVars == <<built>>
scheduleVars == <<schedule>>
engineVars == <<engine>>
registryVars == <<mongoengine_fields_mapping, handler_types, defined, document_registry>>
restVars == <<scheduleVars, engineVars, registryVars>>

(***************************************************************************)
(* Bounds                                                                  *)
(***************************************************************************)
NDocs == 2
\* the most actions one diff of two snapshots detects
MaxActions == 3
\* the most actions of the list the execution engine runs
MaxPlan == 2
\* the most class definitions of handler types
MaxDefinitions == 2

(***************************************************************************)
(* Python / BSON values                                                    *)
(***************************************************************************)
\* Python None, BSON null
None == "None"
\* a field that a document does not have
Missing == "<missing>"
\* "" is a falsy value that is not None; "a" and "b" are truthy
Values == {None, "", "a", "b"}
FieldNames == {"f", "g"}
DocIds == 1..NDocs
\* a document: "f" holds any value or is missing, "g" holds "a" or is missing
Documents == {doc \in [FieldNames -> Values \cup {Missing}] : doc["g"] \in {"a", Missing}}
Collections == [DocIds -> Documents]

\* the old and new value of a diff, each a Python value with its type
PyNone == [NoneType |-> None]
PyStr(s) == [str |-> s]
PyBool(b) == [bool |-> b]
PyList(l) == [list |-> l]

\* Python truthiness of a value
Truthy(v) == v \notin {None, ""}
\* Python `x or y`
PyOr(x, y) == IF Truthy(x) THEN x ELSE y

(***************************************************************************)
(* The collection store (pymongo) as the handler uses it                   *)
(***************************************************************************)
\* filter {field: {'$exists': True}}
Exists(doc, field) == doc[field] # Missing

\* filter {field: {'$nin': keys}}: also matches a document without the field
NotIn(doc, field, keys) == doc[field] \notin keys

\* update {'$rename': {old: new}} on one document that has old:
\* new takes old's value (replacing any value it had), old is removed
RenameField(doc, old, new) ==
    [f \in FieldNames |-> IF f = new THEN doc[old]
                          ELSE IF f = old THEN Missing
                          ELSE doc[f]]

\* update {'$set': {field: value}} on one document
SetField(doc, field, value) == [doc EXCEPT ![field] = value]

\* collection.find({field: {'$nin': keys}}): a cursor over the matching
\* documents that has not been iterated yet, so has retrieved none
Find(coll, field, keys) ==
    [matching |-> {i \in DocIds : NotIn(coll[i], field, keys)}, retrieved |-> 0]

\* what a call raised and issued; for change_type_key also the class found
\* for the new identifier and whether convert_from was called
NoClass == [name |-> None, module |-> None]
NoResult == [raised |-> "none", wrong_count |-> 0, updates |-> 0,
             to_field_cls |-> NoClass, convert_from |-> FALSE]
Raise(kind) == [raised |-> kind, wrong_count |-> 0, updates |-> 0,
                to_field_cls |-> NoClass, convert_from |-> FALSE]
Updated == [raised |-> "none", wrong_count |-> 0, updates |-> 1,
            to_field_cls |-> NoClass, convert_from |-> FALSE]

(***************************************************************************)
(* AlterDiff: old, new, policy, default                                    *)
(***************************************************************************)
AlterDiff(old, new, policy, default) ==
    [old |-> old, new |-> new, policy |-> policy, default |-> default]

\* the diff the backward direction uses: old and new swapped
Swap(d) == [d EXCEPT !.old = d.new, !.new = d.old]

Policies == {"error", "replace"}

\* elements of a `choices` declaration: plain values, or (value, label) tuples
Scalar(v) == [tag |-> "scalar", v |-> v]
Pair(k, label) == [tag |-> "tuple", v |-> <<k, label>>]
ChoiceLists ==
    { <<Scalar("a")>>,
      <<Scalar(""), Scalar("a")>>,
      <<Scalar("a"), Scalar("b")>>,
      <<Pair("a", "A"), Pair("b", "B")>> }

DbFieldDiffs ==
    {AlterDiff(PyStr(o), PyStr(n), "error", None) : o \in FieldNames, n \in FieldNames}
    \cup {AlterDiff(PyNone, PyStr("f"), "error", None),
          AlterDiff(PyStr("f"), PyNone, "error", None)}
RequiredDiffs ==
    {AlterDiff(PyBool(x[1]), PyBool(x[2]), "error", x[3]) :
        x \in BOOLEAN \X BOOLEAN \X Values}
ChoicesDiffs ==
    {AlterDiff(PyList(x[1]), PyList(x[2]), x[3], x[4]) :
        x \in {<<Scalar("a")>>} \X ChoiceLists \X Policies \X Values}

(***************************************************************************)
(* CommonFieldType                                                         *)
(***************************************************************************)
FieldSchemas == [db_field : FieldNames \cup {None}, default : Values]

NoHandler == [db_field |-> None, field_schema |-> [db_field |-> None, default |-> None]]

\* what a change_* call leaves behind
Outcome(coll, h, res) == [collection |-> coll, handler |-> h, result |-> res]

\* CommonFieldType.__init__: the handler, or SchemaError without db_field
NewHandler(field_schema) ==
    [db_field |-> field_schema.db_field, field_schema |-> field_schema]

\* __init__ without the check of db_field
InitRaises_never(field_schema) == FALSE

\* `if self.db_field is None: raise SchemaError`: field_schema.get('db_field')
\* is None for an absent key and for a null value
InitRaises(field_schema) == field_schema.db_field = None

\* change_db_field that renames and keeps the handler's db_field
change_db_field_keeping(coll, h, d) ==
    IF d.old = PyNone
    THEN Outcome(coll, h, Raise("InvalidDocument"))
    ELSE IF d.new = PyNone \/ d.old = d.new
    THEN Outcome(coll, h, Raise("OperationFailure"))
    ELSE Outcome([i \in DocIds |-> IF Exists(coll[i], d.old.str)
                                   THEN RenameField(coll[i], d.old.str, d.new.str)
                                   ELSE coll[i]],
                 h,
                 Updated)

\* change_db_field: one update_many renaming diff.old to diff.new in the
\* documents that have diff.old; the driver rejects a filter whose key is
\* None, the store rejects a rename to None and a rename of a field to itself
change_db_field(coll, h, d) ==
    IF d.old = PyNone
    THEN Outcome(coll, h, Raise("InvalidDocument"))
    ELSE IF d.new = PyNone \/ d.old = d.new
    THEN Outcome(coll, h, Raise("OperationFailure"))
    ELSE Outcome([i \in DocIds |-> IF Exists(coll[i], d.old.str)
                                   THEN RenameField(coll[i], d.old.str, d.new.str)
                                   ELSE coll[i]],
                 [h EXCEPT !.db_field = d.new.str],
                 Updated)

\* `default = diff.default or self.field_schema.get('default')`
PickDefault(d, field_schema) == PyOr(d.default, field_schema.default)

\* change_required without the check of the default
change_required_unchecked(coll, h, d) ==
    IF d.old = PyBool(FALSE) /\ d.new = PyBool(TRUE)
    THEN Outcome([i \in DocIds |-> IF ~Exists(coll[i], h.db_field)
                                   THEN SetField(coll[i], h.db_field,
                                                 PickDefault(d, h.field_schema))
                                   ELSE coll[i]],
                 h, Updated)
    ELSE Outcome(coll, h, NoResult)

\* change_required
change_required(coll, h, d) ==
    IF d.old = PyBool(FALSE) /\ d.new = PyBool(TRUE)
    THEN LET default == PickDefault(d, h.field_schema) IN
         IF default = None
         THEN Outcome(coll, h, Raise("MigrationError"))
         ELSE Outcome([i \in DocIds |-> IF ~Exists(coll[i], h.db_field)
                                        THEN SetField(coll[i], h.db_field, default)
                                        ELSE coll[i]],
                      h, Updated)
    ELSE Outcome(coll, h, NoResult)

\* change_unique, change_unique_with, change_null, change_sparse: `pass`
change_nothing(coll, h, d) == Outcome(coll, h, NoResult)

\* change_primary_key
change_primary_key(coll, h, d) == change_required(coll, h, d)

\* the head of change_choices: keys of (value, label) tuples, or the list itself
ChoiceKeys(new) ==
    IF new.list[1].tag = "tuple"
    THEN {new.list[i].v[1] : i \in DOMAIN new.list}
    ELSE {new.list[i].v : i \in DOMAIN new.list}

\* `self.collection.find({self.db_field: {'$nin': choices}}).retrieved`
WrongCount(coll, h, choices) ==
    Find(coll, h.db_field, choices).retrieved

\* change_choices
change_choices(coll, h, d) ==
    LET choices == ChoiceKeys(d.new)
        wrong_count == WrongCount(coll, h, choices)
        default == PickDefault(d, h.field_schema)
    IN  IF d.policy = "error" /\ wrong_count # 0
        THEN Outcome(coll, h, [raised |-> "MigrationError",
                               wrong_count |-> wrong_count, updates |-> 0])
        ELSE IF d.policy = "replace"
        THEN IF default \notin choices
             THEN Outcome(coll, h, Raise("MigrationError"))
             ELSE Outcome([i \in DocIds |-> IF NotIn(coll[i], h.db_field, choices)
                                            THEN SetField(coll[i], h.db_field, default)
                                            ELSE coll[i]],
                          h, Updated)
        ELSE Outcome(coll, h, NoResult)

(***************************************************************************)
(* SpecField: one handler, constructed once, whose change_* operations run *)
(* forward with a diff and then backward with the same diff swapped        *)
(***************************************************************************)
\* no change_* call has been made yet
NoCall == "none"
\* no name has been given to change_param yet
NoParam == "<none>"
NoDiff == AlterDiff(PyNone, PyNone, "error", None)

InitIdleField ==
    /\ collection = [i \in DocIds |-> [f \in FieldNames |-> Missing]]
    /\ handler = NoHandler
    /\ phase = "idle"
    /\ pre = collection
    /\ origin = collection
    /\ last = NoCall
    /\ diff = NoDiff
    /\ result = NoResult
    /\ param = NoParam
    /\ handler0 = handler

InitField ==
    /\ collection \in Collections
    /\ handler = NoHandler
    /\ phase = "new"
    /\ pre = collection
    /\ origin = collection
    /\ last = NoCall
    /\ diff = NoDiff
    /\ result = NoResult
    /\ param = NoParam
    /\ handler0 = handler

\* CommonFieldType(collection, field_schema)
Construct ==
    /\ phase = "new"
    /\ \E field_schema \in FieldSchemas :
          IF InitRaises(field_schema)
          THEN /\ phase' = "failed"
               /\ handler' = NoHandler
               /\ handler0' = NoHandler
               /\ result' = Raise("SchemaError")
          ELSE /\ phase' = "ready"
               /\ handler' = NewHandler(field_schema)
               /\ handler0' = NewHandler(field_schema)
               /\ result' = NoResult
    /\ UNCHANGED <<collection, pre, origin, last, diff, param, alterVars, buildVars,
                   restVars>>

(***************************************************************************)
(* AlterDocument on a database (tests/action/test_alter_document.py)       *)
(***************************************************************************)
MaxRuns == 2

CollectionNames == {"schema1_doc1", "new_name1", "other"}
\* a name the database has no collection for
NoCollection == [exists |-> FALSE, docs |-> {}]
\* a collection and the documents it holds
Contents == {[exists |-> TRUE, docs |-> d] : d \in {{}, {"x"}, {"y"}}}
Databases == [CollectionNames -> Contents \cup {NoCollection}]

DocumentTypes == {"Schema1Doc1", "Schema1Doc2"}
NotInSchema == "<not in schema>"
\* document type -> parameters['collection'], or NotInSchema
Schemas == [DocumentTypes -> CollectionNames \cup {NotInSchema}]

\* db.list_collection_names()
list_collection_names(d) == {c \in CollectionNames : d[c].exists}

\* a rename that leaves the collection under its old name too
rename_keeping(d, name, new_name) ==
    IF name \notin list_collection_names(d) \/ new_name \in list_collection_names(d)
    THEN [db |-> d, raised |-> "OperationFailure"]
    ELSE [db |-> [d EXCEPT ![new_name] = d[name]], raised |-> "none"]

\* Collection.rename(new_name): the store refuses to rename a collection it
\* does not have, and refuses a name that is taken
rename(d, name, new_name) ==
    IF name \notin list_collection_names(d) \/ new_name \in list_collection_names(d)
    THEN [db |-> d, raised |-> "OperationFailure"]
    ELSE [db |-> [d EXCEPT ![new_name] = d[name], ![name] = NoCollection],
          raised |-> "none"]

\* AlterDocument(document_type, collection=...)
AlterDocument(document_type, new_collection) ==
    [document_type |-> document_type, collection |-> new_collection,
     state |-> "new", left_collection |-> None, runs |-> <<>>, raised |-> "none"]

\* prepare that accepts a document type the schema does not have
prepare_unchecked(act, left_schema) ==
    [act EXCEPT !.state = "prepared",
                !.left_collection = left_schema[act.document_type]]

\* prepare(db, left_schema, policy): SchemaError when the document type is
\* not in the schema; otherwise the action keeps the schema's collection name
prepare(act, left_schema) ==
    IF left_schema[act.document_type] = NotInSchema
    THEN [act EXCEPT !.state = "failed", !.raised = "SchemaError"]
    ELSE [act EXCEPT !.state = "prepared",
                     !.left_collection = left_schema[act.document_type]]

\* run_forward that renames without looking for the collection
run_forward_unguarded(d, act) ==
    IF act.collection = None \/ act.collection = act.left_collection
    THEN [db |-> d, raised |-> "none"]
    ELSE rename(d, act.left_collection, act.collection)

\* run_forward: rename the schema's collection to the new name when the
\* action carries a new name and that collection exists
run_forward(d, act) ==
    IF act.collection = None \/ act.collection = act.left_collection
    THEN [db |-> d, raised |-> "none"]
    ELSE IF act.left_collection \notin list_collection_names(d)
    THEN [db |-> d, raised |-> "none"]
    ELSE rename(d, act.left_collection, act.collection)

\* run_backward that renames nothing back
run_backward_nothing(d, act) == [db |-> d, raised |-> "none"]

\* run_backward: rename the collection with the new name back when it exists
run_backward(d, act) ==
    IF act.collection = None \/ act.collection = act.left_collection
    THEN [db |-> d, raised |-> "none"]
    ELSE IF act.collection \notin list_collection_names(d)
    THEN [db |-> d, raised |-> "none"]
    ELSE rename(d, act.collection, act.left_collection)

InitIdleAlter ==
    /\ db = [c \in CollectionNames |-> NoCollection]
    /\ schema = [t \in DocumentTypes |-> NotInSchema]
    /\ action = AlterDocument(None, None)
    /\ db0 = db
    /\ dbStart = db

InitAlter ==
    /\ db \in Databases
    /\ schema \in Schemas
    /\ \E t \in DocumentTypes, c \in CollectionNames \cup {None} :
          action = AlterDocument(t, c)
    /\ db0 = db
    /\ dbStart = db

Prepare ==
    /\ action.state = "new"
    /\ action' = prepare(action, schema)
    /\ UNCHANGED <<db, schema, db0, dbStart, fieldVars, buildVars, restVars>>

Run(direction, out) ==
    /\ action.state = "prepared"
    /\ Len(action.runs) < MaxRuns
    /\ db' = out.db
    /\ db0' = db
    /\ dbStart' = dbStart
    /\ action' = [action EXCEPT !.runs = Append(@, direction),
                                !.raised = out.raised]
    /\ UNCHANGED <<schema, fieldVars, buildVars, restVars>>

RunForward == Run("forward", run_forward(db, action))

RunBackward == Run("backward", run_backward(db, action))

(***************************************************************************)
(* build_object of the document actions (actions/embedded.py)              *)
(***************************************************************************)
\* mongoengine_migrate.flags.EMBEDDED_DOCUMENT_NAME_PREFIX
EMBEDDED_DOCUMENT_NAME_PREFIX == <<"~">>

\* document-type names, as strings of characters
DocumentTypeNames == { <<"~", "A">>, <<"~", "B">>, <<"A">>, <<"A", "~">> }

\* what a schema snapshot holds for a document type
Descriptors == {"p", "q"}
Snapshots == [DocumentTypeNames -> Descriptors \cup {NotInSchema}]

\* str.startswith
startswith(s, prefix) ==
    /\ Len(s) >= Len(prefix)
    /\ SubSeq(s, 1, Len(prefix)) = prefix

\* what build_object returns: an action object, or None
NoObject == [cls |-> "None", document_type |-> <<>>]
ActionObject(cls, document_type) == [cls |-> cls, document_type |-> document_type]

\* BaseCreateDocument.build_object: the type is new in the right snapshot
BaseCreateDocument_build_object(cls, document_type, left_schema, right_schema) ==
    IF left_schema[document_type] = NotInSchema /\ right_schema[document_type] # NotInSchema
    THEN ActionObject(cls, document_type)
    ELSE NoObject

\* BaseDropDocument.build_object: the type is gone from the right snapshot
BaseDropDocument_build_object(cls, document_type, left_schema, right_schema) ==
    IF left_schema[document_type] # NotInSchema /\ right_schema[document_type] = NotInSchema
    THEN ActionObject(cls, document_type)
    ELSE NoObject

\* BaseRenameDocument.build_object: the type is gone and a new type of the
\* right snapshot has its descriptor
BaseRenameDocument_build_object(cls, document_type, left_schema, right_schema) ==
    IF /\ left_schema[document_type] # NotInSchema
       /\ right_schema[document_type] = NotInSchema
       /\ \E n \in DocumentTypeNames :
             /\ left_schema[n] = NotInSchema
             /\ right_schema[n] = left_schema[document_type]
    THEN ActionObject(cls, document_type)
    ELSE NoObject

\* BaseAlterDocument.build_object: the type is in both snapshots and differs
BaseAlterDocument_build_object(cls, document_type, left_schema, right_schema) ==
    IF /\ left_schema[document_type] # NotInSchema
       /\ right_schema[document_type] # NotInSchema
       /\ left_schema[document_type] # right_schema[document_type]
    THEN ActionObject(cls, document_type)
    ELSE NoObject

\* CreateEmbedded.build_object without the check of the prefix
CreateEmbedded_build_object_unchecked(document_type, left_schema, right_schema) ==
    BaseCreateDocument_build_object("CreateEmbedded", document_type,
                                    left_schema, right_schema)

\* CreateEmbedded.build_object
CreateEmbedded_build_object(document_type, left_schema, right_schema) ==
    IF ~startswith(document_type, EMBEDDED_DOCUMENT_NAME_PREFIX)
    THEN NoObject
    ELSE BaseCreateDocument_build_object("CreateEmbedded", document_type,
                                         left_schema, right_schema)

\* DropEmbedded.build_object
DropEmbedded_build_object(document_type, left_schema, right_schema) ==
    IF ~startswith(document_type, EMBEDDED_DOCUMENT_NAME_PREFIX)
    THEN NoObject
    ELSE BaseDropDocument_build_object("DropEmbedded", document_type,
                                       left_schema, right_schema)

\* RenameEmbedded.build_object
RenameEmbedded_build_object(document_type, left_schema, right_schema) ==
    IF ~startswith(document_type, EMBEDDED_DOCUMENT_NAME_PREFIX)
    THEN NoObject
    ELSE BaseRenameDocument_build_object("RenameEmbedded", document_type,
                                         left_schema, right_schema)

\* build_object of CreateDocument, DropDocument, RenameDocument, AlterDocument
Document_build_object(cls, document_type, left_schema, right_schema) ==
    IF startswith(document_type, EMBEDDED_DOCUMENT_NAME_PREFIX)
    THEN NoObject
    ELSE CASE cls = "CreateDocument" ->
                BaseCreateDocument_build_object(cls, document_type, left_schema, right_schema)
           [] cls = "DropDocument" ->
                BaseDropDocument_build_object(cls, document_type, left_schema, right_schema)
           [] cls = "RenameDocument" ->
                BaseRenameDocument_build_object(cls, document_type, left_schema, right_schema)
           [] cls = "AlterDocument" ->
                BaseAlterDocument_build_object(cls, document_type, left_schema, right_schema)

EmbeddedActions == {"CreateEmbedded", "DropEmbedded", "RenameEmbedded"}
DocumentActions == {"CreateDocument", "DropDocument", "RenameDocument", "AlterDocument"}

\* the arguments of a build_object call that has not been made yet
Arguments(document_type, left_schema, right_schema) ==
    [cls |-> "none", document_type |-> document_type,
     left_schema |-> left_schema, right_schema |-> right_schema,
     object |-> NoObject]

InitIdleBuild ==
    built = Arguments(<<>>, [n \in DocumentTypeNames |-> NotInSchema],
                      [n \in DocumentTypeNames |-> NotInSchema])

InitBuild ==
    \E t \in DocumentTypeNames, l \in Snapshots, r \in Snapshots :
        built = Arguments(t, l, r)

\* cls.build_object(document_type, left_schema, right_schema) returned object
Built(cls, object) ==
    /\ built.cls = "none"
    /\ built' = [built EXCEPT !.cls = cls, !.object = object]
    /\ UNCHANGED <<fieldVars, alterVars, restVars>>

BuildCreateEmbedded ==
    Built("CreateEmbedded",
          CreateEmbedded_build_object(built.document_type, built.left_schema,
                                      built.right_schema))

BuildDropEmbedded ==
    Built("DropEmbedded",
          DropEmbedded_build_object(built.document_type, built.left_schema,
                                    built.right_schema))

BuildRenameEmbedded ==
    Built("RenameEmbedded",
          RenameEmbedded_build_object(built.document_type, built.left_schema,
                                      built.right_schema))

BuildDocument ==
    \E cls \in DocumentActions :
        Built(cls, Document_build_object(cls, built.document_type, built.left_schema,
                                         built.right_schema))

(***************************************************************************)
(* The priority scheduler (actions/embedded.py: priority)                  *)
(***************************************************************************)
\* RenameEmbedded.priority
RenameEmbedded_priority == 2

\* DropEmbedded with the priority of the first action of a migration
DropEmbedded_priority_first == RenameEmbedded_priority

\* DropEmbedded.priority
DropEmbedded_priority == 18

\* CreateEmbedded with the priority of the last action of a migration
CreateEmbedded_priority_last == DropEmbedded_priority

\* CreateEmbedded.priority
CreateEmbedded_priority == 4

\* the field-level actions; each has a fixed priority in the field-level band
FieldActions == {"CreateField", "DropField"}
FieldBand == {6, 10, 14}
Bands == [FieldActions -> FieldBand]

\* an action instance: its class, its document type and, for a field-level
\* action, its field
Action(cls, document_type, field) ==
    [cls |-> cls, document_type |-> document_type, field |-> field]

\* the actions a diff of two snapshots can detect
DetectedActions ==
    {Action(cls, <<"~", "A">>, None) : cls \in EmbeddedActions}
    \cup {Action(cls, <<"A">>, None) : cls \in DocumentActions \ {"AlterDocument"}}
    \cup {Action(cls, t, "f") : cls \in FieldActions, t \in {<<"~", "A">>, <<"A">>}}

\* the action lists of a diff, in detection order: one action per change
Detections ==
    {s \in UNION {[1..n -> DetectedActions] : n \in 0..MaxActions} :
        \A i, j \in DOMAIN s : i # j => s[i] # s[j]}

\* the priority an action class declares
priority(cls, band) ==
    CASE cls \in {"RenameEmbedded", "RenameDocument"} -> RenameEmbedded_priority
      [] cls \in {"CreateEmbedded", "CreateDocument"} -> CreateEmbedded_priority
      [] cls \in {"DropEmbedded", "DropDocument"} -> DropEmbedded_priority
      [] cls \in FieldActions -> band[cls]

\* one step of the stable sort: the action goes behind every action of a
\* lower or an equal priority
RECURSIVE insert(_, _, _)
insert(sorted, a, band) ==
    IF sorted = <<>>
    THEN <<a>>
    ELSE IF priority(Head(sorted).cls, band) <= priority(a.cls, band)
         THEN <<Head(sorted)>> \o insert(Tail(sorted), a, band)
         ELSE <<a>> \o sorted

\* the stable sort by (priority, detection order)
RECURSIVE sort(_, _)
sort(actions, band) ==
    IF actions = <<>>
    THEN <<>>
    ELSE insert(sort(SubSeq(actions, 1, Len(actions) - 1), band),
                actions[Len(actions)], band)

Unscheduled(actions, band) ==
    [detected |-> actions, band |-> band, scheduled |-> <<>>, done |-> FALSE]

InitIdleSchedule ==
    schedule = Unscheduled(<<>>, [cls \in FieldActions |-> 6])

InitSchedule ==
    \E actions \in Detections, band \in Bands :
        schedule = Unscheduled(actions, band)

Schedule ==
    /\ ~schedule.done
    /\ schedule' = [schedule EXCEPT !.scheduled = sort(schedule.detected, schedule.band),
                                    !.done = TRUE]
    /\ UNCHANGED <<fieldVars, alterVars, buildVars, engineVars, registryVars>>

(***************************************************************************)
(* The execution engine over an ordered action list                        *)
(***************************************************************************)
\* CreateEmbedded.run_forward as a document creation would run: it creates
\* a collection
CreateEmbedded_run_forward_creating(d) ==
    [d EXCEPT !["other"] = [exists |-> TRUE, docs |-> {}]]

\* CreateEmbedded.run_forward: "Embedded documents are not required to do
\* anything"
CreateEmbedded_run_forward(d) == d
\* CreateEmbedded.run_backward
CreateEmbedded_run_backward(d) == d
\* DropEmbedded.run_forward
DropEmbedded_run_forward(d) == d
\* DropEmbedded.run_backward
DropEmbedded_run_backward(d) == d
\* RenameEmbedded.run_forward
RenameEmbedded_run_forward(d) == d
\* RenameEmbedded.run_backward
RenameEmbedded_run_backward(d) == d

\* an action of the ordered list: an embedded action, or a prepared
\* AlterDocument that renames left_collection to collection
PlanAction(cls, left_collection, new_collection) ==
    [cls |-> cls, left_collection |-> left_collection, collection |-> new_collection]

PlanActions ==
    {PlanAction(cls, None, None) : cls \in EmbeddedActions}
    \cup {a \in {PlanAction("AlterDocument", l, c) :
                    l \in CollectionNames, c \in CollectionNames} :
            a.left_collection # a.collection}

Plans == UNION {[1..n -> PlanActions] : n \in 0..MaxPlan}

\* the databases of the engine: a collection is known by what it holds
Holds == [c \in CollectionNames |->
            IF c = "schema1_doc1" THEN {"x"} ELSE IF c = "new_name1" THEN {"y"} ELSE {}]
EngineDatabases ==
    {d \in Databases : \A c \in CollectionNames : d[c].exists => d[c].docs = Holds[c]}

\* action.run_forward()
forward(d, a) ==
    CASE a.cls = "AlterDocument" -> run_forward(d, a)
      [] a.cls = "CreateEmbedded" -> [db |-> CreateEmbedded_run_forward(d), raised |-> "none"]
      [] a.cls = "DropEmbedded" -> [db |-> DropEmbedded_run_forward(d), raised |-> "none"]
      [] a.cls = "RenameEmbedded" -> [db |-> RenameEmbedded_run_forward(d), raised |-> "none"]

\* action.run_backward()
backward(d, a) ==
    CASE a.cls = "AlterDocument" -> run_backward(d, a)
      [] a.cls = "CreateEmbedded" -> [db |-> CreateEmbedded_run_backward(d), raised |-> "none"]
      [] a.cls = "DropEmbedded" -> [db |-> DropEmbedded_run_backward(d), raised |-> "none"]
      [] a.cls = "RenameEmbedded" -> [db |-> RenameEmbedded_run_backward(d), raised |-> "none"]

\* the forward run iterates the list in order
forward_order(actions) == [i \in 1..Len(actions) |-> i]

\* a backward run that iterates the list in the order of the forward run
backward_order_same(actions) == [i \in 1..Len(actions) |-> i]

\* the backward run iterates the reverse of the same list
backward_order(actions) == [i \in 1..Len(actions) |-> Len(actions) + 1 - i]

\* what the engine records of an action it has run
LogEntry(index, direction, raised) ==
    [index |-> index, direction |-> direction, raised |-> raised]

\* the engine before a run
NewEngine(actions) ==
    [plan |-> actions, direction |-> "none", queue |-> <<>>, status |-> "idle",
     log |-> <<>>]

\* the engine at the start of a run over the actions in the given order
Started(e, direction, order) ==
    [e EXCEPT !.direction = direction,
              !.queue = order,
              !.status = IF order = <<>> THEN "done" ELSE "running"]

\* the action the engine runs next, and what running it gives
RunHead(e, d) ==
    IF e.direction = "forward"
    THEN forward(d, e.plan[Head(e.queue)])
    ELSE backward(d, e.plan[Head(e.queue)])

\* the engine after an action that did not fail
Proceeded(e, out) ==
    [e EXCEPT !.queue = Tail(@),
              !.status = IF Tail(e.queue) = <<>> THEN "done" ELSE "running",
              !.log = Append(@, LogEntry(Head(e.queue), e.direction, out.raised))]

\* a step of the run that goes on to the next action after a failure
execute_continuing(e, d) ==
    [db |-> RunHead(e, d).db, engine |-> Proceeded(e, RunHead(e, d))]

\* a step of the run: the next action runs; its failure halts the run
execute(e, d) ==
    LET out == RunHead(e, d)
    IN  IF out.raised # "none"
        THEN [db |-> out.db,
              engine |-> [e EXCEPT !.queue = <<>>,
                                   !.status = "failed",
                                   !.log = Append(@, LogEntry(Head(e.queue), e.direction,
                                                              out.raised))]]
        ELSE [db |-> out.db, engine |-> Proceeded(e, out)]

InitIdleEngine == engine = NewEngine(<<>>)

InitEngine ==
    /\ db \in EngineDatabases
    /\ schema = [t \in DocumentTypes |-> NotInSchema]
    /\ action = AlterDocument(None, None)
    /\ db0 = db
    /\ dbStart = db
    /\ engine \in {NewEngine(actions) : actions \in Plans}

\* the engine's run_forward over the list
MigrateForward ==
    /\ engine.status = "idle"
    /\ engine' = Started(engine, "forward", forward_order(engine.plan))
    /\ dbStart' = db
    /\ UNCHANGED <<db, db0, schema, action, fieldVars, buildVars, scheduleVars, registryVars>>

\* the engine's run_backward over the list, on its own or after run_forward
MigrateBackward ==
    /\ \/ engine.status = "idle"
       \/ engine.status = "done" /\ engine.direction = "forward"
    /\ engine' = Started(engine, "backward", backward_order(engine.plan))
    /\ UNCHANGED <<db, db0, dbStart, schema, action, fieldVars, buildVars, scheduleVars, registryVars>>

Execute ==
    /\ engine.status = "running"
    /\ engine' = execute(engine, db).engine
    /\ db' = execute(engine, db).db
    /\ db0' = db
    /\ UNCHANGED <<dbStart, schema, action, fieldVars, buildVars, scheduleVars, registryVars>>

(***************************************************************************)
(* The registry of handler types (fields/base.py: FieldTypeMeta)           *)
(***************************************************************************)
\* names of field classes, the field-type identifiers
FieldClassNames == {"StringField", "BaseField", "MyField"}
\* a field class: its __name__ and the module that defines it
Class(name, module) == [name |-> name, module |-> module]
\* the names of the field classes of the module mongoengine.fields
MongoengineFields == {"StringField", "BaseField"}
StringField == Class("StringField", "mongoengine.fields")
BaseField == Class("BaseField", "mongoengine.fields")
\* field classes an application defines
MyField == Class("MyField", "app.fields")
OtherMyField == Class("MyField", "app.other")
OwnStringField == Class("StringField", "app.fields")
\* names of the handler types a program defines
HandlerNames == {"StringFieldType", "NumberFieldType"}
\* an identifier the registry has no handler for
Unbound == "<unbound>"

\* the value of a class attribute: absent from the class body, None, a list
\* of field classes, or a field class that is not in a list
Absent == [kind |-> "absent", items |-> <<>>]
NoneValue == [kind |-> "None", items |-> <<>>]
ListOf(items) == [kind |-> "list", items |-> items]
BareClass(item) == [kind |-> "class", items |-> <<item>>]

FieldClassLists ==
    {ListOf(items) : items \in {<<>>, <<StringField>>, <<MyField>>,
                                <<StringField, MyField>>}}

\* the class body of a handler type: the attribute the metaclass reads and
\* the attribute CommonFieldType declares
ClassBody(field_cls, field_classes) ==
    [mongoengine_field_cls |-> field_cls, mongoengine_field_classes |-> field_classes]

ClassBodies ==
    {ClassBody(field_cls, field_classes) :
        field_cls \in {Absent, NoneValue, BareClass(StringField)} \cup FieldClassLists,
        field_classes \in {Absent, ListOf(<<StringField>>), ListOf(<<MyField>>)}}

\* a handler type: its base and its class body
HandlerType(base, attrs) == [base |-> base, attrs |-> attrs]
\* a name no class is defined under
NoType == HandlerType("<undefined>", ClassBody(Absent, Absent))

\* class CommonFieldType(metaclass=FieldTypeMeta)
CommonFieldType == HandlerType("object", ClassBody(Absent, NoneValue))

TypeNames == HandlerNames \cup {"CommonFieldType"}

\* getattr(b, attr) of a class attribute along the bases of b; Absent when
\* hasattr(b, attr) is false
RECURSIVE getattr(_, _, _)
getattr(types, b, attr) ==
    IF b \notin TypeNames
    THEN Absent
    ELSE IF types[b].attrs[attr] # Absent
    THEN types[b].attrs[attr]
    ELSE getattr(types, types[b].base, attr)

\* the elements of a list
Range(items) == {items[i] : i \in DOMAIN items}
\* c.__name__ of the classes of a list
Names(items) == {items[i].name : i \in DOMAIN items}

\* the identifiers the registry has a handler for
Bound(mapping) == {k \in FieldClassNames : mapping[k] # Unbound}

\* what a class definition leaves: the registry, the types, what it raised
Definition(mapping, types, raised) ==
    [mapping |-> mapping, types |-> types, raised |-> raised]

\* FieldTypeMeta.__new__(mcs, name, bases, attrs) for a class statement
FieldTypeMeta_new(mapping, types, name, base, attrs) ==
    LET inherited == getattr(types, base, "mongoengine_field_cls")
        me_classes == IF attrs.mongoengine_field_cls # Absent
                      THEN attrs.mongoengine_field_cls
                      ELSE IF inherited # Absent
                      THEN inherited
                      ELSE ListOf(<<>>)
        keys == Names(me_classes.items)
        klass == [types EXCEPT ![name] = HandlerType(base, attrs)]
    IN  IF me_classes.kind \notin {"list", "None"}
        THEN Definition(mapping, types, "AssertionError")
        ELSE IF me_classes.kind = "list" /\ me_classes.items # <<>>
        THEN IF keys \cap Bound(mapping) # {}
             THEN Definition(mapping, types, "AssertionError")
             ELSE Definition([k \in FieldClassNames |->
                                 IF k \in keys THEN name ELSE mapping[k]],
                             klass, "none")
        ELSE Definition(mapping, klass, "none")

\* the class statements made so far
NoDefinition ==
    [count |-> 0, name |-> None, base |-> None, attrs |-> ClassBody(Absent, Absent),
     raised |-> "none", before |-> [k \in FieldClassNames |-> Unbound]]

\* the state after the import of fields/base.py
InitRegistry ==
    /\ mongoengine_fields_mapping = [k \in FieldClassNames |-> Unbound]
    /\ handler_types = [n \in TypeNames |->
                           IF n = "CommonFieldType" THEN CommonFieldType ELSE NoType]
    /\ defined = NoDefinition
    /\ document_registry = <<>>

\* class name(base): attrs
DefineHandlerType ==
    /\ defined.count < MaxDefinitions
    /\ \E name \in HandlerNames, base \in TypeNames, attrs \in ClassBodies :
          /\ handler_types[name] = NoType
          /\ handler_types[base] # NoType
          /\ LET out == FieldTypeMeta_new(mongoengine_fields_mapping, handler_types,
                                          name, base, attrs)
             IN  /\ mongoengine_fields_mapping' = out.mapping
                 /\ handler_types' = out.types
                 /\ defined' = [count |-> defined.count + 1, name |-> name,
                                base |-> base, attrs |-> attrs, raised |-> out.raised,
                                before |-> mongoengine_fields_mapping]
    /\ UNCHANGED document_registry
    /\ UNCHANGED <<fieldVars, alterVars, buildVars, scheduleVars, engineVars>>

(***************************************************************************)
(* change_type_key (fields/base.py)                                        *)
(***************************************************************************)
\* the type identifiers of a diff of type_key
TypeKeys == FieldClassNames \cup {"GoneField"}
TypeKeyDiffs ==
    {AlterDiff(PyStr(o), PyStr(n), "error", None) : o \in TypeKeys, n \in TypeKeys}

\* mongoengine_fields_mapping.get(type_key, CommonFieldType)
get(mapping, type_key) ==
    IF type_key \in DOMAIN mapping /\ mapping[type_key] # Unbound
    THEN mapping[type_key]
    ELSE "CommonFieldType"

\* the classes of a list that have the name
Named(items, class_name) == SelectSeq(items, LAMBDA c : c.name = class_name)

\* find_field_class(class_name, field_type): the handler type's classes, then
\* mongoengine.fields, then the fields of the registered documents, then
\* BaseField
find_field_class(types, registry, class_name, field_type) ==
    LET field_classes == getattr(types, field_type, "mongoengine_field_classes")
        me_field_cls == IF field_classes.kind = "list"
                        THEN Named(field_classes.items, class_name)
                        ELSE <<>>
        field_objs == Named(registry, class_name)
    IN  IF me_field_cls # <<>>
        THEN me_field_cls[Len(me_field_cls)]
        ELSE IF class_name \in MongoengineFields
        THEN Class(class_name, "mongoengine.fields")
        ELSE IF field_objs # <<>>
        THEN Head(field_objs)
        ELSE BaseField

\* new_fieldtype.convert_from(old_field_cls, new_field_cls): called on the
\* class with two arguments, the method takes three
convert_from(to_field_cls) ==
    [raised |-> "TypeError", wrong_count |-> 0, updates |-> 0,
     to_field_cls |-> to_field_cls, convert_from |-> TRUE]

\* change_type_key
change_type_key(coll, h, d, mapping, types, registry) ==
    LET new_fieldtype == get(mapping, d.new.str)
        new_field_cls == find_field_class(types, registry, d.new.str, new_fieldtype)
    IN  IF new_field_cls = BaseField
        THEN Outcome(coll, h, [Raise("MigrationError") EXCEPT !.to_field_cls = new_field_cls])
        ELSE Outcome(coll, h, convert_from(new_field_cls))

\* the class body of the handler type a program defines for the conversion
TypeKeyBodies ==
    {ClassBody(field_cls, field_classes) :
        field_cls \in {Absent, ListOf(<<StringField>>), ListOf(<<MyField>>),
                       ListOf(<<BaseField>>)},
        field_classes \in {Absent, ListOf(<<MyField>>), ListOf(<<OwnStringField>>),
                           ListOf(<<BaseField>>), ListOf(<<MyField, OtherMyField>>)}}

\* the classes of the fields of the documents in mongoengine's registry
DocumentRegistries == {<<>>, <<MyField>>, <<OtherMyField, MyField>>, <<OwnStringField>>}

\* collections whose documents are alike
AlikeCollections == {coll \in Collections : \A i \in DocIds : coll[i] = coll[1]}

\* a program with one handler type defined and a handler constructed
InitTypeKey ==
    /\ \E attrs \in TypeKeyBodies :
          LET out == FieldTypeMeta_new([k \in FieldClassNames |-> Unbound],
                                       [n \in TypeNames |->
                                           IF n = "CommonFieldType"
                                           THEN CommonFieldType ELSE NoType],
                                       "StringFieldType", "CommonFieldType", attrs)
          IN  /\ mongoengine_fields_mapping = out.mapping
              /\ handler_types = out.types
    /\ defined = NoDefinition
    /\ document_registry \in DocumentRegistries
    /\ collection \in AlikeCollections
    /\ handler = NewHandler([db_field |-> "f", default |-> None])
    /\ phase = "ready"
    /\ pre = collection
    /\ origin = collection
    /\ last = NoCall
    /\ diff = NoDiff
    /\ result = NoResult
    /\ param = NoParam
    /\ handler0 = handler

\* schema_skel: the parameters of a field schema
schema_skel ==
    {"db_field", "required", "default", "unique", "unique_with", "primary_key",
     "choices", "null", "sparse", "type_key"}

\* the attributes of a handler: hasattr(self, attribute)
HandlerAttributes ==
    {"field_schema", "collection", "db_field", "mongoengine_field_classes",
     "schema_skel", "build_schema", "change_param", "change_db_field",
     "change_required", "change_unique", "change_unique_with", "change_primary_key",
     "change_choices", "change_null", "change_sparse", "change_type_key",
     "convert_from"}

\* method_name = f'change_{name}'
method_name(name) == "change_" \o name

\* the method change_param calls for the name, if any
Invoked(name) ==
    IF method_name(name) \in HandlerAttributes THEN method_name(name) ELSE NoCall

\* getattr(self, method)(diff)
call(method, coll, h, d, mapping, types, registry) ==
    CASE method = "change_db_field" -> change_db_field(coll, h, d)
      [] method = "change_required" -> change_required(coll, h, d)
      [] method = "change_primary_key" -> change_primary_key(coll, h, d)
      [] method = "change_choices" -> change_choices(coll, h, d)
      [] method \in {"change_unique", "change_unique_with", "change_null",
                     "change_sparse"} -> change_nothing(coll, h, d)
      [] method = "change_type_key" -> change_type_key(coll, h, d, mapping, types, registry)
      \* change_param(diff): the argument `diff` is missing
      [] method = "change_param" -> Outcome(coll, h, Raise("TypeError"))

\* change_param(name, diff)
change_param(coll, h, name, d, mapping, types, registry) ==
    IF method_name(name) \in HandlerAttributes
    THEN call(method_name(name), coll, h, d, mapping, types, registry)
    ELSE Outcome(coll, h, NoResult)

\* a forward call takes any diff; the backward call takes the forward diff swapped
Allowed(name, d) ==
    \/ phase = "ready"
    \/ phase = "forward" /\ param = name /\ d = Swap(diff)

Apply(name, d) ==
    LET out == change_param(collection, handler, name, d, mongoengine_fields_mapping,
                            handler_types, document_registry)
    IN  /\ Allowed(name, d)
        /\ param' = name
        /\ last' = Invoked(name)
        /\ diff' = d
        /\ collection' = out.collection
        /\ handler' = out.handler
        /\ result' = out.result
        /\ pre' = collection
        /\ handler0' = handler
        /\ origin' = origin
        /\ phase' = IF phase = "ready" THEN "forward" ELSE "backward"
        /\ UNCHANGED <<alterVars, buildVars, restVars>>

ChangeDbField == \E d \in DbFieldDiffs : Apply("db_field", d)

ChangeRequired == \E d \in RequiredDiffs : Apply("required", d)

ChangePrimaryKey == \E d \in RequiredDiffs : Apply("primary_key", d)

ChangeChoices == \E d \in ChoicesDiffs : Apply("choices", d)

ChangeNothing ==
    \E name \in {"unique", "unique_with", "null", "sparse"} :
        \E d \in {AlterDiff(PyBool(FALSE), PyBool(TRUE), "error", None)} :
            Apply(name, d)

ChangeTypeKey == \E d \in TypeKeyDiffs : Apply("type_key", d)

\* change_param with the names that have no method of their own: the type
\* key, a parameter of the skeleton without a method, the name that makes
\* 'change_param', and a parameter the handler does not know
OtherNames == {"type_key", "default", "param", "min_length"}
ChangeOther ==
    \E name \in OtherNames :
        \E d \in {AlterDiff(PyStr("StringField"), PyStr("GoneField"), "error", None)} :
            Apply(name, d)

(***************************************************************************)
(* Specifications                                                          *)
(***************************************************************************)
InitIdleRest == InitIdleSchedule /\ InitIdleEngine /\ InitRegistry

InitF == InitField /\ InitIdleAlter /\ InitIdleBuild /\ InitIdleRest
NextField ==
    \/ Construct
    \/ ChangeDbField
    \/ ChangeRequired
    \/ ChangePrimaryKey
    \/ ChangeChoices
    \/ ChangeNothing
    \/ ChangeOther
SpecField == InitF /\ [][NextField]_vars

InitA == InitIdleField /\ InitAlter /\ InitIdleBuild /\ InitIdleRest
NextAlter ==
    \/ Prepare
    \/ RunForward
    \/ RunBackward
SpecAlter == InitA /\ [][NextAlter]_vars

InitB == InitIdleField /\ InitIdleAlter /\ InitBuild /\ InitIdleRest
NextBuild ==
    \/ BuildCreateEmbedded
    \/ BuildDropEmbedded
    \/ BuildRenameEmbedded
    \/ BuildDocument
SpecBuild == InitB /\ [][NextBuild]_vars

InitS == InitIdleField /\ InitIdleAlter /\ InitIdleBuild /\ InitSchedule /\ InitIdleEngine
         /\ InitRegistry
NextSchedule == Schedule
SpecSchedule == InitS /\ [][NextSchedule]_vars

InitE == InitIdleField /\ InitIdleBuild /\ InitIdleSchedule /\ InitEngine /\ InitRegistry
NextEngine ==
    \/ MigrateForward
    \/ MigrateBackward
    \/ Execute
SpecEngine == InitE /\ [][NextEngine]_vars

InitR == InitIdleField /\ InitIdleAlter /\ InitIdleBuild /\ InitIdleSchedule
         /\ InitIdleEngine /\ InitRegistry
NextRegistry == DefineHandlerType
SpecRegistry == InitR /\ [][NextRegistry]_vars

InitT == InitTypeKey /\ InitIdleAlter /\ InitIdleBuild /\ InitIdleSchedule
         /\ InitIdleEngine
NextTypeKey == ChangeTypeKey
SpecTypeKey == InitT /\ [][NextTypeKey]_vars

(***************************************************************************)
(* Properties of SpecField                                                 *)
(***************************************************************************)
Called(op) == phase \in {"forward", "backward"} /\ last = op

\* the documents of a collection that lack a field
Lacking(coll, field) == {i \in DocIds : ~Exists(coll[i], field)}

\* the default a diff supplies: the one it carries, else the schema's
SuppliedDefault == IF diff.default # None
                   THEN diff.default
                   ELSE handler.field_schema.default

MakesRequired ==
    Called("change_required") /\ diff.old = PyBool(FALSE) /\ diff.new = PyBool(TRUE)

\* C1: change_required from required=False to required=True, with no default
\* in the diff and none in the field schema, raises MigrationError, issues no
\* update, and leaves the collection as it was: the documents lacking the
\* field are the same after the call as before it.
C1_RequiredWithoutDefaultFails ==
    (MakesRequired /\ diff.default = None /\ handler.field_schema.default = None)
    => /\ result.raised = "MigrationError"
       /\ result.updates = 0
       /\ collection = pre
       /\ Cardinality(Lacking(collection, handler.db_field))
            = Cardinality(Lacking(pre, handler.db_field))

C1_Witness ==
    /\ MakesRequired
    /\ diff.default = None
    /\ handler.field_schema.default = None
    /\ Lacking(pre, handler.db_field) # {}
    /\ result.raised = "MigrationError"

\* C2: change_choices under the strict policy, on a collection where N >= 1
\* documents have a value of the field that is not among the new choices,
\* raises MigrationError reporting N and mutates no document.
C2_StrictChoicesFail ==
    (Called("change_choices") /\ diff.policy = "error")
    => LET outside == {i \in DocIds : /\ Exists(pre[i], handler.db_field)
                                      /\ NotIn(pre[i], handler.db_field,
                                               ChoiceKeys(diff.new))}
           nin == {i \in DocIds : NotIn(pre[i], handler.db_field,
                                        ChoiceKeys(diff.new))}
       IN  outside # {}
           => /\ result.raised = "MigrationError"
              /\ result.wrong_count = Cardinality(nin)
              /\ collection = pre

\* C3: change_choices under the replace policy: when the supplied default (the
\* diff's, else the schema's) is among the new choices, exactly the documents
\* whose value is outside the new choices are set to it and the others are
\* untouched; when it is not, MigrationError is raised and nothing is mutated.
C3_ReplaceChoices ==
    (Called("change_choices") /\ diff.policy = "replace")
    => LET choices == ChoiceKeys(diff.new) IN
       IF SuppliedDefault \in choices
       THEN /\ result.raised = "none"
            /\ \A i \in DocIds :
                  collection[i] = IF NotIn(pre[i], handler.db_field, choices)
                                  THEN SetField(pre[i], handler.db_field, SuppliedDefault)
                                  ELSE pre[i]
       ELSE /\ result.raised = "MigrationError"
            /\ collection = pre

\* C4: change_required from required=False to required=True with a non-null
\* default (the diff's if it carries one, else the schema's): every document
\* lacking the field receives that value, every other document is unchanged.
C4_RequiredSetsDefault ==
    (MakesRequired /\ SuppliedDefault # None)
    => \A i \in DocIds :
          collection[i] = IF ~Exists(pre[i], handler.db_field)
                          THEN SetField(pre[i], handler.db_field, SuppliedDefault)
                          ELSE pre[i]

\* C5: change_db_field with diff (old, new) followed by change_db_field with
\* old and new swapped leaves every document as it was before the first call.
C5_DbFieldRoundTrip ==
    (phase = "backward" /\ last = "change_db_field") => collection = origin

(***************************************************************************)
(* Properties of SpecAlter                                                 *)
(***************************************************************************)
Ran(direction) ==
    /\ Len(action.runs) > 0
    /\ action.runs[Len(action.runs)] = direction

\* the action carries a collection name other than the schema's
ChangesCollection ==
    /\ action.state = "prepared"
    /\ action.collection # None
    /\ action.collection # action.left_collection

Renamed(d, name, new_name) ==
    /\ db[new_name] = d[name]
    /\ ~db[name].exists
    /\ \A c \in CollectionNames \ {name, new_name} : db[c] = d[c]

C8_AbsentCollectionNoop ==
    /\ (/\ ChangesCollection
        /\ Ran("forward")
        /\ action.left_collection \notin list_collection_names(db0))
       => (db = db0 /\ action.raised = "none")
    /\ (/\ ChangesCollection
        /\ Ran("backward")
        /\ action.collection \notin list_collection_names(db0))
       => (db = db0 /\ action.raised = "none")

C8_Witness ==
    /\ ChangesCollection
    /\ Ran("forward")
    /\ action.left_collection \notin list_collection_names(db0)
    /\ action.collection \in list_collection_names(db0)
    /\ db = db0

\* C9: prepare of an action whose document type is not in the schema snapshot
\* raises SchemaError, and then no run_forward or run_backward has run and no
\* document is mutated.
C9_PrepareSchemaError ==
    (action.state # "new" /\ schema[action.document_type] = NotInSchema)
    => /\ action.state = "failed"
       /\ action.raised = "SchemaError"
       /\ action.runs = <<>>
       /\ db = dbStart

C9_Witness ==
    /\ action.state = "failed"
    /\ action.raised = "SchemaError"
    /\ list_collection_names(db) # {}

(***************************************************************************)
(* Properties of SpecBuild                                                 *)
(***************************************************************************)
\* the name is the marker prefix followed by something
CarriesMarker(name) ==
    \E k \in 0..Len(name) :
        name = EMBEDDED_DOCUMENT_NAME_PREFIX \o SubSeq(name, k + 1, Len(name))

\* C10: for a document-type name without the embedded marker prefix,
\* build_object of CreateEmbedded, DropEmbedded and RenameEmbedded returns
\* None whatever the snapshots hold; for a name with the prefix, build_object
\* of every non-embedded document action returns None.
C10_EmbeddedPartition ==
    /\ (built.cls \in EmbeddedActions /\ ~CarriesMarker(built.document_type))
       => built.object = NoObject
    /\ (built.cls \in DocumentActions /\ CarriesMarker(built.document_type))
       => built.object = NoObject

C10_Witness ==
    /\ built.cls = "CreateEmbedded"
    /\ ~CarriesMarker(built.document_type)
    /\ built.left_schema[built.document_type] = NotInSchema
    /\ built.right_schema[built.document_type] # NotInSchema
    /\ built.object = NoObject

(***************************************************************************)
(* Properties of SpecSchedule                                              *)
(***************************************************************************)
\* the place of an action in a list that holds it once
Place(actions, a) == CHOOSE i \in DOMAIN actions : actions[i] = a

\* C11: in the scheduled action list, every document-creation action is
\* placed before every field-creation action that targets a field of that
\* same newly created document.
C11_CreateDocumentBeforeItsFields ==
    schedule.done
    => \A i, j \in DOMAIN schedule.scheduled :
          LET a == schedule.scheduled[i]
              b == schedule.scheduled[j]
          IN  (/\ a.cls \in {"CreateDocument", "CreateEmbedded"}
               /\ b.cls = "CreateField"
               /\ b.document_type = a.document_type)
              => i < j

\* the field creation was detected before the creation of its document
C11_Witness ==
    /\ schedule.done
    /\ \E i, j \in DOMAIN schedule.detected :
          /\ i < j
          /\ schedule.detected[i] = Action("CreateField", <<"~", "A">>, "f")
          /\ schedule.detected[j] = Action("CreateEmbedded", <<"~", "A">>, None)
    /\ Len(schedule.scheduled) = Len(schedule.detected)

(***************************************************************************)
(* Properties of SpecEngine                                                *)
(***************************************************************************)
\* the database after the forward operations of a list of actions
RECURSIVE ApplyForward(_, _)
ApplyForward(actions, d) ==
    IF actions = <<>>
    THEN d
    ELSE ApplyForward(Tail(actions), forward(d, Head(actions)).db)

\* the database after the forward operations of the first k actions
StateAfter(k) == ApplyForward(SubSeq(engine.plan, 1, k), dbStart)

FailedForward(k) ==
    /\ engine.log[k].direction = "forward"
    /\ engine.log[k].raised # "none"

\* C12: forward execution halts at the first failing action: no later action
\* of the list is executed, and the effects of the actions that ran before the
\* failure remain applied.
C12_ForwardHaltsAtFailure ==
    \A k \in DOMAIN engine.log :
        FailedForward(k)
        => /\ k = Len(engine.log)
           /\ engine.status = "failed"
           /\ \A j \in 1..k : engine.log[j].index = j
           /\ db = StateAfter(k - 1)

\* the second action failed after the first one changed the database
C12_Witness ==
    /\ Len(engine.log) = 2
    /\ FailedForward(2)
    /\ engine.log[1].raised = "none"
    /\ db # dbStart

\* a full forward run followed by a full backward run
FullForwardThenBackward ==
    /\ engine.status = "done"
    /\ engine.direction = "backward"
    /\ Len(engine.log) = 2 * Len(engine.plan)

\* the backward operation of each action undoes its forward operation on the
\* database the forward run gave it
ExactInverses ==
    \A k \in DOMAIN engine.plan :
        backward(StateAfter(k), engine.plan[k]) = [db |-> StateAfter(k - 1), raised |-> "none"]

\* C13: backward execution runs the same ordered list in reverse, calling
\* run_backward on each action; when each action's backward operation is the
\* exact inverse of its forward operation, a full forward run followed by a
\* full backward run restores the pre-migration collection state.
C13_BackwardRestores ==
    /\ \A k \in DOMAIN engine.log :
          engine.log[k].direction = "backward"
          => \E n \in 0..Len(engine.log) :
                /\ \A j \in 1..n : engine.log[j].direction = "forward"
                /\ \A j \in (n + 1)..k :
                      /\ engine.log[j].direction = "backward"
                      /\ engine.log[j].index = Len(engine.plan) + 1 - (j - n)
    /\ (FullForwardThenBackward /\ ExactInverses) => db = dbStart

\* two renames, the second of the collection the first one made, both undone
C13_Witness ==
    /\ FullForwardThenBackward
    /\ ExactInverses
    /\ Len(engine.plan) = 2
    /\ StateAfter(1) # dbStart
    /\ StateAfter(2) # StateAfter(1)
    /\ engine.plan[2].left_collection = engine.plan[1].collection
    /\ db = dbStart

(***************************************************************************)
(* Properties of SpecRegistry                                              *)
(***************************************************************************)
\* the identifiers the class body of the last definition declares
Declares ==
    UNION {Names(v.items) :
              v \in {defined.attrs.mongoengine_field_cls,
                     defined.attrs.mongoengine_field_classes} \cap FieldClassLists}

\* C14: every identifier of the registry is bound to one handler type;
\* defining a handler type that declares an identifier already bound to
\* another handler fails at class-definition time and leaves the registry
\* unchanged; a handler type that declares identifiers not yet bound has
\* every one of them bound to it.
C14_RegistryUniqueness ==
    defined.count > 0
    => /\ \A k \in Bound(mongoengine_fields_mapping) :
             mongoengine_fields_mapping[k] \in HandlerNames
       /\ (Declares \cap Bound(defined.before) # {})
          => /\ defined.raised # "none"
             /\ mongoengine_fields_mapping = defined.before
       /\ (Declares \cap Bound(defined.before) = {})
          => \A k \in Declares : mongoengine_fields_mapping[k] = defined.name

(***************************************************************************)
(* Properties of SpecTypeKey                                               *)
(***************************************************************************)
\* the classes the handler type of the new identifier declares
TargetClasses ==
    LET field_classes == getattr(handler_types,
                                 get(mongoengine_fields_mapping, diff.new.str),
                                 "mongoengine_field_classes")
    IN  IF field_classes.kind = "list" THEN Range(field_classes.items) ELSE {}

\* (a) the identifier names a class of the target handler type
InTargetHandler == \E c \in TargetClasses : c.name = diff.new.str
\* (b) the identifier names a class of mongoengine.fields
InFieldNamespace == diff.new.str \in MongoengineFields
\* (c) the identifier names the class of a field of a declared model
InDeclaredModels == \E c \in Range(document_registry) : c.name = diff.new.str

\* C15: change_type_key resolves the new type identifier by trying, in this
\* order, the target handler's own identifier set, the field-declaration
\* namespace and the field instances of the declared model classes; it raises
\* MigrationError if and only if none of the three resolves the identifier,
\* and then it raises before convert_from is invoked and before any document
\* is mutated.
C15_TypeKeyResolution ==
    Called("change_type_key")
    => /\ InTargetHandler => result.to_field_cls \in TargetClasses
       /\ (~InTargetHandler /\ InFieldNamespace)
          => result.to_field_cls = Class(diff.new.str, "mongoengine.fields")
       /\ (~InTargetHandler /\ ~InFieldNamespace /\ InDeclaredModels)
          => result.to_field_cls \in Range(document_registry)
       /\ result.raised = "MigrationError"
          <=> ~(InTargetHandler \/ InFieldNamespace \/ InDeclaredModels)
       /\ result.raised = "MigrationError"
          => (~result.convert_from /\ collection = pre)

(***************************************************************************)
(* Properties of the dispatch of change_param (SpecField)                  *)
(***************************************************************************)
\* C16: change_param(name, diff) invokes exactly the handler method
\* change_<name> with the diff when name is a recognized parameter; for every
\* unrecognized parameter name it is a no-op: no store operation is issued,
\* no error is raised and the handler state is unchanged.
C16_ChangeParamDispatch ==
    phase \in {"forward", "backward"}
    => /\ param \in schema_skel => last = method_name(param)
       /\ param \notin schema_skel
          => /\ last = NoCall
             /\ result = NoResult
             /\ collection = pre
             /\ handler = handler0

(***************************************************************************)
(* Properties of the construction of a handler (SpecField)                 *)
(***************************************************************************)
\* C17: constructing a handler from a field schema whose db_field is absent
\* or null raises SchemaError and no document is mutated; so no change_*
\* operation ever runs on a handler without a non-null db_field.
C17_HandlerNeedsDbField ==
    /\ phase = "failed"
       => /\ result.raised = "SchemaError"
          /\ collection = origin
          /\ last = NoCall
          /\ param = NoParam
    /\ phase \in {"ready", "forward", "backward"}
       => /\ handler.field_schema.db_field # None
          /\ handler.db_field # None
          /\ handler0.db_field # None

\* the construction failed over a collection that holds values
C17_Witness ==
    /\ phase = "failed"
    /\ result.raised = "SchemaError"
    /\ \E i \in DocIds : Exists(collection[i], "f")

\* a diff of db_field is a change of one field name into another
IsRename(d) == d.old # PyNone /\ d.new # PyNone /\ d.old # d.new

\* C19: change_db_field with a diff (old, new), the change of one field name
\* into another, moves the value stored under old to new in every document
\* that has old, leaves every document lacking old completely untouched, and
\* afterwards the handler's db_field equals new.
C19_DbFieldMoves ==
    (Called("change_db_field") /\ IsRename(diff))
    => /\ result.raised = "none"
       /\ \A i \in DocIds :
             IF Exists(pre[i], diff.old.str)
             THEN /\ collection[i][diff.new.str] = pre[i][diff.old.str]
                  /\ collection[i][diff.old.str] = Missing
             ELSE collection[i] = pre[i]
       /\ handler.db_field = diff.new.str

\* one document has old and is changed, another lacks old and has new
C19_Witness ==
    /\ Called("change_db_field")
    /\ IsRename(diff)
    /\ handler0.db_field = diff.old.str
    /\ \E i, j \in DocIds :
          /\ Exists(pre[i], diff.old.str)
          /\ collection[i] # pre[i]
          /\ ~Exists(pre[j], diff.old.str)
          /\ Exists(pre[j], diff.new.str)
          /\ collection[j] = pre[j]

(***************************************************************************)
(* Properties of the priorities of the embedded actions (SpecSchedule)     *)
(***************************************************************************)
\* the scheduled list holds the detected actions, each once
SameActions ==
    /\ Len(schedule.scheduled) = Len(schedule.detected)
    /\ Range(schedule.scheduled) = Range(schedule.detected)

LastRun == engine.plan[engine.log[Len(engine.log)].index]

\* C20: run_forward and run_backward of CreateEmbedded, DropEmbedded and
\* RenameEmbedded issue no operation to the collection store: after any
\* sequence of forward and backward runs of embedded actions, every
\* collection and document is unchanged.
C20_EmbeddedRunsKeepStore ==
    /\ (engine.log # <<>> /\ LastRun.cls \in EmbeddedActions)
       => /\ db = db0
          /\ engine.log[Len(engine.log)].raised = "none"
    /\ (\A k \in DOMAIN engine.plan : engine.plan[k].cls \in EmbeddedActions)
       => db = dbStart

\* two embedded actions ran forward and backward over a database that holds
\* collections
C20_Witness ==
    /\ FullForwardThenBackward
    /\ Len(engine.plan) = 2
    /\ engine.plan[1].cls = "CreateEmbedded"
    /\ engine.plan[2].cls \in EmbeddedActions
    /\ list_collection_names(db) # {}
    /\ "other" \notin list_collection_names(db)

====
